---- MODULE Spec2Model ----
(***************************************************************************)
(* Model of src/treeview.py: a TreeGraph lays a TreeNode tree out on a Tk   *)
(* canvas.  The state is the TreeGraph object's attributes plus the canvas  *)
(* (its item list and its scroll region) and the position of the caller    *)
(* (the __main__ block: construct, display_tree, then the event loop).      *)
(***************************************************************************)
EXTENDS Integers, Sequences, FiniteSets, TLC

-----------------------------------------------------------------------------
(* Bounds of the explored inputs *)

\* trees without images are enumerated up to this many nodes
MaxNodes == 7
\* trees whose nodes may carry images are enumerated up to this many nodes
MaxImageNodes == 4

-----------------------------------------------------------------------------
(* Program constants *)

canvas_width == 800
canvas_height == 600
node_width == 80
node_height == 60
\* y of the root, display_tree's third argument to draw_tree
root_y == 30

\* Image paths a node may name.  Image.open succeeds on the members of
\* Loadable and raises on every other path.
ImagePaths == {"ok.png", "missing.png"}
Loadable == {"ok.png"}

-----------------------------------------------------------------------------
(* TreeNode values *)

\* TreeNode(name, image, children); image "" stands for None (both are falsy
\* in `if node.image`), children <<>> for the default [].
TreeNode(name, image, children) ==
    [name |-> name, image |-> image, children |-> children]

\* All child lists with m nodes in total, images drawn from I.
RECURSIVE Forests(_, _)
Forests(m, I) ==
    IF m = 0 THEN {<<>>}
    ELSE UNION { { <<TreeNode("n", im, c)>> \o rest :
                     im \in I, c \in Forests(k - 1, I), rest \in Forests(m - k, I) } :
                 k \in 1..m }

TreesOfSize(n, I) == { TreeNode("n", im, c) : im \in I, c \in Forests(n - 1, I) }

\* A tree the canvas is too small for: the root has canvas_width + 1
\* children, the first of which has one child of its own.
WideTree ==
    TreeNode("n", "",
             [k \in 1..(canvas_width + 1) |->
                 IF k = 1 THEN TreeNode("n", "", <<TreeNode("n", "", <<>>)>>)
                          ELSE TreeNode("n", "", <<>>)])

InputTrees ==
    (UNION { TreesOfSize(n, {""}) : n \in 1..MaxNodes })
    \cup (UNION { TreesOfSize(n, {""} \cup ImagePaths) : n \in 1..MaxImageNodes })
    \cup {WideTree}

-----------------------------------------------------------------------------
(* State *)

VARIABLES
    pc,                \* where the caller is: "init", "constructed", "displayed", "failed"
    data,              \* self.data, the root TreeNode
    tree_size,         \* self.tree_size
    x_spacing,         \* self.x_spacing
    y_spacing,         \* self.y_spacing
    preloaded_images,  \* keys of self.preloaded_images
    items,             \* the canvas's items in creation order
    scrollregion,      \* the canvas's scrollregion option, <<>> when unset
    error              \* message of the ValueError that reached the caller, "" if none

vars == <<pc, data, tree_size, x_spacing, y_spacing, preloaded_images,
          items, scrollregion, error>>

-----------------------------------------------------------------------------
(* Python builtins *)

\* sum(s[lo..hi]); the range is folded by halves
RECURSIVE sum(_, _, _)
sum(s, lo, hi) ==
    IF lo > hi THEN 0
    ELSE IF lo = hi THEN s[lo]
    ELSE LET mid == (lo + hi) \div 2
         IN  sum(s, lo, mid) + sum(s, mid + 1, hi)

max(S) == CHOOSE m \in S : \A e \in S : e <= m
min(S) == CHOOSE m \in S : \A e \in S : m <= e

-----------------------------------------------------------------------------
(* TreeGraph.calculate_tree_size *)

\* calculate_tree_size with the height taken as the tallest child plus one
\* (the conventional tree depth) instead of the sum of the children's heights
RECURSIVE calculate_tree_size_maxheight(_)
calculate_tree_size_maxheight(node) ==
    IF node.children = <<>> THEN <<1, 1>>
    ELSE LET n == Len(node.children)
             child_sizes == [k \in 1..n |-> calculate_tree_size_maxheight(node.children[k])]
             max_child_width == max({child_sizes[k][1] : k \in 1..n})
             max_height == max({child_sizes[k][2] : k \in 1..n})
         IN  <<max({max_child_width, n}), max_height + 1>>

RECURSIVE calculate_tree_size(_)
calculate_tree_size(node) ==
    IF node.children = <<>> THEN <<1, 1>>
    ELSE LET n == Len(node.children)
             child_sizes == [k \in 1..n |-> calculate_tree_size(node.children[k])]
             max_child_width == max({child_sizes[k][1] : k \in 1..n})
             total_height == sum([k \in 1..n |-> child_sizes[k][2]], 1, n)
         IN  <<max({max_child_width, n}), total_height + 1>>

(* TreeGraph.calculate_node_spacing *)
calculate_node_spacing(size) ==
    <<canvas_width \div size[1], canvas_height \div size[2]>>

-----------------------------------------------------------------------------
(* TreeGraph.preload_images *)

\* The result is [cache, ok]: the keys stored so far and whether the pass is
\* still running (FALSE once Image.open raised, which ends the traversal).
RECURSIVE preload_images(_, _)
RECURSIVE preload_children(_, _, _, _)

\* preload_images with the failure of Image.open swallowed: the image is
\* left out of the cache and the traversal goes on
preload_images_swallow(node, cache) ==
    preload_children(node.children, 1, Len(node.children),
                     [cache |-> IF node.image # "" /\ node.image \in Loadable
                                THEN cache \cup {node.image}
                                ELSE cache,
                      ok |-> TRUE])

preload_images(node, cache) ==
    IF node.image # "" /\ node.image \notin Loadable
    THEN [cache |-> cache, ok |-> FALSE]
    ELSE preload_children(node.children, 1, Len(node.children),
                          [cache |-> IF node.image # "" THEN cache \cup {node.image}
                                                        ELSE cache,
                           ok |-> TRUE])

\* the loop `for child in node.children` over children[lo..hi], in order,
\* folded by halves; nothing runs after a failure
preload_children(children, lo, hi, st) ==
    IF ~st.ok \/ lo > hi THEN st
    ELSE IF lo = hi THEN preload_images(children[lo], st.cache)
    ELSE LET mid == (lo + hi) \div 2
         IN  preload_children(children, mid + 1, hi,
                              preload_children(children, lo, mid, st))

-----------------------------------------------------------------------------
(* Canvas items *)

\* An item records its type, its coordinates, and the tree node it was
\* created for: the node's path from the root, <<>> for the root and
\* Append(p, k) for the k-th child of p.  The path is history only; the
\* program does not read it.
Item(type, node, coords) == [type |-> type, node |-> node, coords |-> coords]

\* canvas.create_window((0, 0), window=self.inner_frame, anchor=tk.NW)
WindowItem == Item("window", <<>>, <<0, 0>>)

\* Bounding box of one item.  An image is node_width x node_height (the size
\* preload_images resizes to) and is centred on its coordinates; a label is
\* taken to lie inside its node's box; the empty inner frame is one pixel.
ItemBox(it) ==
    CASE it.type = "rectangle" -> it.coords
      [] it.type = "line" ->
            <<min({it.coords[1], it.coords[3]}), min({it.coords[2], it.coords[4]}),
              max({it.coords[1], it.coords[3]}), max({it.coords[2], it.coords[4]})>>
      [] it.type = "image" ->
            <<it.coords[1] - node_width \div 2, it.coords[2] - node_height \div 2,
              it.coords[1] + node_width \div 2, it.coords[2] + node_height \div 2>>
      [] it.type = "text" ->
            <<it.coords[1], it.coords[2], it.coords[1], it.coords[2]>>
      [] OTHER -> <<it.coords[1], it.coords[2], it.coords[1] + 1, it.coords[2] + 1>>

\* canvas.bbox("all"): the box around every item, None (<<>>) on an empty canvas
bbox_all(its) ==
    IF its = <<>> THEN <<>>
    ELSE LET boxes == {ItemBox(its[i]) : i \in DOMAIN its}
         IN  <<min({b[1] : b \in boxes}), min({b[2] : b \in boxes}),
               max({b[3] : b \in boxes}), max({b[4] : b \in boxes})>>

-----------------------------------------------------------------------------
(* TreeGraph.draw_tree *)

\* The result is [ok, width, items]: whether the call returned (FALSE when it
\* raised ValueError), the returned width, and the items created, including
\* those created before a raise.
RECURSIVE draw_tree(_, _, _, _)
RECURSIVE draw_children(_, _, _, _, _, _, _)

\* draw_tree with create_text moved into the else branch of `if node.image`,
\* so that a node drawn as an image gets no label
draw_tree_label_in_else(node, path, x, y) ==
    IF node.image # "" /\ node.image \notin preloaded_images
    THEN [ok |-> FALSE, width |-> 0, items |-> <<>>]
    ELSE LET drawn == IF node.image # ""
                      THEN <<Item("image", path, <<x, y>>)>>
                      ELSE <<Item("rectangle", path,
                                  <<x - node_width \div 2, y - node_height \div 2,
                                    x + node_width \div 2, y + node_height \div 2>>),
                             Item("text", path, <<x, y>>)>>
         IN  IF node.children # <<>>
             THEN LET num_children == Len(node.children)
                      total_width == num_children * x_spacing
                      start_x == x - total_width \div 2
                      r == draw_children(node, path, x, y, 1, num_children,
                                         [ok |-> TRUE, start_x |-> start_x,
                                          items |-> drawn])
                  IN  [ok |-> r.ok, width |-> total_width, items |-> r.items]
             ELSE [ok |-> TRUE, width |-> node_width, items |-> drawn]

\* draw_tree returning the sum of the widths its children returned (the
\* distance start_x has advanced) instead of total_width
draw_tree_realized_width(node, path, x, y) ==
    IF node.image # "" /\ node.image \notin preloaded_images
    THEN [ok |-> FALSE, width |-> 0, items |-> <<>>]
    ELSE LET shape == IF node.image # ""
                      THEN Item("image", path, <<x, y>>)
                      ELSE Item("rectangle", path,
                                <<x - node_width \div 2, y - node_height \div 2,
                                  x + node_width \div 2, y + node_height \div 2>>)
             label == Item("text", path, <<x, y>>)
         IN  IF node.children # <<>>
             THEN LET num_children == Len(node.children)
                      total_width == num_children * x_spacing
                      start_x == x - total_width \div 2
                      r == draw_children(node, path, x, y, 1, num_children,
                                         [ok |-> TRUE, start_x |-> start_x,
                                          items |-> <<shape, label>>])
                  IN  [ok |-> r.ok, width |-> r.start_x - start_x, items |-> r.items]
             ELSE [ok |-> TRUE, width |-> node_width, items |-> <<shape, label>>]

draw_tree(node, path, x, y) ==
    IF node.image # "" /\ node.image \notin preloaded_images
    THEN [ok |-> FALSE, width |-> 0, items |-> <<>>]
    ELSE LET shape == IF node.image # ""
                      THEN Item("image", path, <<x, y>>)
                      ELSE Item("rectangle", path,
                                <<x - node_width \div 2, y - node_height \div 2,
                                  x + node_width \div 2, y + node_height \div 2>>)
             label == Item("text", path, <<x, y>>)
         IN  IF node.children # <<>>
             THEN LET num_children == Len(node.children)
                      total_width == num_children * x_spacing
                      start_x == x - total_width \div 2
                      r == draw_children(node, path, x, y, 1, num_children,
                                         [ok |-> TRUE, start_x |-> start_x,
                                          items |-> <<shape, label>>])
                  IN  [ok |-> r.ok, width |-> total_width, items |-> r.items]
             ELSE [ok |-> TRUE, width |-> node_width, items |-> <<shape, label>>]

\* the loop `for child in node.children` over children[lo..hi], in order,
\* folded by halves; st carries start_x and the items created so far
draw_children(node, path, x, y, lo, hi, st) ==
    IF ~st.ok \/ lo > hi THEN st
    ELSE IF lo = hi
    THEN LET child_x == st.start_x + x_spacing \div 2
             line == Item("line", Append(path, lo),
                          <<x, y + node_height \div 2,
                            child_x, y + y_spacing - node_height \div 2>>)
             r == draw_tree(node.children[lo], Append(path, lo), child_x, y + y_spacing)
         IN  [ok |-> r.ok, start_x |-> st.start_x + r.width,
              items |-> st.items \o <<line>> \o r.items]
    ELSE LET mid == (lo + hi) \div 2
         IN  draw_children(node, path, x, y, mid + 1, hi,
                           draw_children(node, path, x, y, lo, mid, st))

-----------------------------------------------------------------------------
(* Operations *)

Init ==
    /\ pc = "init"
    /\ data \in InputTrees
    /\ tree_size = <<>>
    /\ x_spacing = 0
    /\ y_spacing = 0
    /\ preloaded_images = {}
    /\ items = <<>>
    /\ scrollregion = <<>>
    /\ error = ""

\* TreeGraph.__init__; a failed preload raises ValueError out of the
\* constructor, after the canvas and its inner window exist
TreeGraph_init ==
    /\ pc = "init"
    /\ tree_size' = calculate_tree_size(data)
    /\ x_spacing' = calculate_node_spacing(tree_size')[1]
    /\ y_spacing' = calculate_node_spacing(tree_size')[2]
    /\ scrollregion' = bbox_all(<<>>)
    /\ items' = <<WindowItem>>
    /\ LET r == preload_images(data, {})
       IN  /\ preloaded_images' = r.cache
           /\ IF r.ok
              THEN pc' = "constructed" /\ error' = ""
              ELSE pc' = "failed" /\ error' = "Failed to load image"
    /\ UNCHANGED data

\* TreeGraph.display_tree
display_tree ==
    /\ pc = "constructed"
    /\ LET r == draw_tree(data, <<>>, canvas_width \div 2, root_y)
           root_width == r.width
       IN  /\ items' = items \o r.items
           /\ IF r.ok
              THEN /\ scrollregion' = <<(-root_width) \div 2, -30,
                                        root_width \div 2, canvas_height>>
                   /\ pc' = "displayed"
                   /\ error' = error
              ELSE /\ scrollregion' = scrollregion
                   /\ pc' = "failed"
                   /\ error' = "Error displaying tree"
    /\ UNCHANGED <<data, tree_size, x_spacing, y_spacing, preloaded_images>>

\* on_canvas_configure calling display_tree again, a re-layout on resize
on_canvas_configure_redraw ==
    /\ pc # "init"
    /\ LET r == draw_tree(data, <<>>, canvas_width \div 2, root_y)
       IN  /\ items' = IF pc = "displayed" THEN items \o r.items ELSE items
           /\ scrollregion' = bbox_all(items')
    /\ UNCHANGED <<pc, data, tree_size, x_spacing, y_spacing, preloaded_images, error>>

\* TreeGraph.on_canvas_configure, bound to <Configure> before preload runs,
\* so the event is handled in every state once the constructor has started
on_canvas_configure ==
    /\ pc # "init"
    /\ scrollregion' = bbox_all(items)
    /\ UNCHANGED <<pc, data, tree_size, x_spacing, y_spacing, preloaded_images,
                   items, error>>

Next ==
    \/ TreeGraph_init
    \/ display_tree
    \/ on_canvas_configure

Spec == Init /\ [][Next]_vars

-----------------------------------------------------------------------------
(* Vocabulary of the properties *)

\* the paths of the nodes of the tree under `node`, itself at `path`
RECURSIVE Paths(_, _)
Paths(node, path) ==
    {path} \cup UNION { Paths(node.children[k], Append(path, k)) :
                        k \in 1..Len(node.children) }

\* the node at `path` under `node`
RECURSIVE Sub(_, _)
Sub(node, path) ==
    IF path = <<>> THEN node ELSE Sub(node.children[Head(path)], Tail(path))

Nodes == Paths(data, <<>>)
Parent(p) == SubSeq(p, 1, Len(p) - 1)
IsLeaf(node) == node.children = <<>>

ShapeIdx == {i \in DOMAIN items : items[i].type \in {"rectangle", "image"}}
LabelIdx == {i \in DOMAIN items : items[i].type = "text"}
LineIdx == {i \in DOMAIN items : items[i].type = "line"}

\* the point a shape item is centred on
Centre(it) ==
    IF it.type = "rectangle"
    THEN <<it.coords[1] + node_width \div 2, it.coords[2] + node_height \div 2>>
    ELSE <<it.coords[1], it.coords[2]>>

\* the pairs <<node, centre>> of the shapes on the canvas
Placed == {<<items[i].node, Centre(items[i])>> : i \in ShapeIdx}

\* the coordinates assigned to node p (p is drawn once, see C5)
Pos(p) == (CHOOSE pl \in Placed : pl[1] = p)[2]

Abs(n) == IF n < 0 THEN -n ELSE n

\* the node_width x node_height boxes centred on a and b share interior points
Overlap(a, b) ==
    /\ Abs(a[1] - b[1]) < node_width
    /\ Abs(a[2] - b[2]) < node_height

-----------------------------------------------------------------------------
(* C1 *)

\* C1: after display_tree no two distinct nodes occupy overlapping space: the
\* node_width x node_height boxes centred on the coordinates of any two
\* different nodes do not intersect.  Stated for the layouts with positive
\* spacing, which leaves the degenerate layouts of C4 aside, and with boxes
\* that merely share an edge counted as not intersecting.
C1_NoOverlap ==
    (pc = "displayed" /\ x_spacing > 0 /\ y_spacing > 0) =>
        \A i, j \in ShapeIdx :
            i < j => ~Overlap(Centre(items[i]), Centre(items[j]))

-----------------------------------------------------------------------------
(* C2 *)

\* a root with exactly two leaf children
ScenarioA ==
    /\ Len(data.children) = 2
    /\ IsLeaf(data.children[1])
    /\ IsLeaf(data.children[2])

\* C2: Scenario A: both children of a root with two leaf children are placed
\* at y = 30 + y_spacing, their x-coordinates are symmetric around 400
\* (x1 + x2 = 800, x1 < 400 < x2), and one edge runs from the root to each.
C2_ScenarioASymmetric ==
    (pc = "displayed" /\ ScenarioA) =>
        LET c1 == Pos(<<1>>)
            c2 == Pos(<<2>>)
        IN  /\ c1[2] = root_y + y_spacing
            /\ c2[2] = root_y + y_spacing
            /\ c1[1] + c2[1] = canvas_width
            /\ c1[1] < canvas_width \div 2
            /\ canvas_width \div 2 < c2[1]
            /\ \A k \in 1..2 :
                 Cardinality({i \in LineIdx : items[i].node = <<k>>}) = 1

-----------------------------------------------------------------------------
(* C3 *)

\* every node has at most one child
RECURSIVE IsChain(_)
IsChain(node) ==
    \/ IsLeaf(node)
    \/ Len(node.children) = 1 /\ IsChain(node.children[1])

\* C3: calculate_tree_size gives a leaf (1, 1) and an internal node
\* (max(largest child width, number of children), 1 + sum of the children's
\* heights); self.tree_size is that footprint of the root.  Consequently the
\* height counts the nodes of the tree, a root with two leaf children has
\* height 3, and a chain of d nodes has footprint (1, d).
C3_Footprint ==
    pc # "init" =>
        /\ tree_size = calculate_tree_size(data)
        /\ \A p \in Nodes :
             LET node == Sub(data, p)
                 n == Len(node.children)
                 size == calculate_tree_size(node)
                 child == [k \in 1..n |-> calculate_tree_size(node.children[k])]
             IN  IF IsLeaf(node)
                 THEN size = <<1, 1>>
                 ELSE /\ size[1] = max({child[k][1] : k \in 1..n} \cup {n})
                      /\ size[2] = 1 + sum([k \in 1..n |-> child[k][2]], 1, n)
        /\ tree_size[2] = Cardinality(Nodes)
        /\ ScenarioA => tree_size[2] = 3
        /\ IsChain(data) => tree_size = <<1, Cardinality(Nodes)>>

\* the footprint of a root with two subtrees, where the sum of the children's
\* heights exceeds the taller child
C3_Witness ==
    /\ pc = "constructed"
    /\ Len(data.children) = 2
    /\ ~IsLeaf(data.children[1])
    /\ ~IsLeaf(data.children[2])
    /\ tree_size[2] > 1 + max({calculate_tree_size(data.children[k])[2] : k \in 1..2})

-----------------------------------------------------------------------------
(* C4 *)

\* the items draw_tree creates
NodeItemIdx == ShapeIdx \cup LabelIdx \cup LineIdx

\* C4: whenever x_spacing or y_spacing comes out zero or negative the
\* construction fails with an error before anything is laid out or drawn, so
\* every pass that reaches draw_tree runs with both steps positive.
C4_DegenerateLayoutError ==
    pc # "init" =>
        LET spacing == calculate_node_spacing(calculate_tree_size(data))
        IN  /\ (spacing[1] <= 0 \/ spacing[2] <= 0) =>
                  (pc = "failed" /\ error # "" /\ NodeItemIdx = {})
            /\ pc \in {"constructed", "displayed"} => (x_spacing > 0 /\ y_spacing > 0)

-----------------------------------------------------------------------------
(* C5 *)

\* the pairs <<node, point>> of the labels on the canvas
Labelled == {<<items[i].node, items[i].coords>> : i \in LabelIdx}

\* C5: in a successful render pass every node of the tree is emitted exactly
\* once, as one shape (rectangle or image, an image exactly for the nodes
\* that name one) and one label at the same point; every node but the root
\* has exactly one incoming edge, which runs from the bottom of its parent's
\* box to the top of its own; the root has none.
C5_EachNodeOnce ==
    pc = "displayed" =>
        /\ Cardinality(ShapeIdx) = Cardinality(Nodes)
        /\ {items[i].node : i \in ShapeIdx} = Nodes
        /\ Cardinality(LabelIdx) = Cardinality(Nodes)
        /\ Labelled = Placed
        /\ \A i \in ShapeIdx :
             (items[i].type = "image") <=> (Sub(data, items[i].node).image # "")
        /\ Cardinality(LineIdx) = Cardinality(Nodes) - 1
        /\ {items[i].node : i \in LineIdx} = Nodes \ {<<>>}
        /\ \A i \in LineIdx :
             LET c == items[i].coords
                 p == items[i].node
             IN  /\ <<Parent(p), <<c[1], c[2] - node_height \div 2>>>> \in Placed
                 /\ <<p, <<c[3], c[4] + node_height \div 2>>>> \in Placed

\* a rendered tree of three levels with an image on an inner node
C5_Witness ==
    /\ pc = "displayed"
    /\ Cardinality(Nodes) = 4
    /\ <<1, 1>> \in Nodes
    /\ Sub(data, <<1>>).image # ""

-----------------------------------------------------------------------------
(* C6 *)

\* the box of every drawn node lies inside the scroll region
ScrollEnclosesNodes ==
    /\ scrollregion # <<>>
    /\ \A i \in ShapeIdx :
         LET c == Centre(items[i])
         IN  /\ scrollregion[1] <= c[1] - node_width \div 2
             /\ c[1] + node_width \div 2 <= scrollregion[3]
             /\ scrollregion[2] <= c[2] - node_height \div 2
             /\ c[2] + node_height \div 2 <= scrollregion[4]

\* C6: when display_tree completes, the scroll region it configured encloses
\* the box of every drawn node.
C6_ScrollEnclosesNodes ==
    [][(display_tree /\ pc' = "displayed") => ScrollEnclosesNodes']_vars

-----------------------------------------------------------------------------
(* C7 *)

\* the width draw_tree returns for the node at p, drawn where it was drawn
ReturnedWidth(p) == draw_tree(Sub(data, p), p, Pos(p)[1], Pos(p)[2]).width

\* C7 as claimed: the returned width is node_width for a leaf and, for an
\* internal node, the sum of the widths its children returned.
C7_ReturnsRealizedWidth ==
    pc = "displayed" =>
        \A p \in Nodes :
            LET node == Sub(data, p)
                n == Len(node.children)
            IN  ReturnedWidth(p) =
                    IF IsLeaf(node) THEN node_width
                    ELSE sum([k \in 1..n |-> ReturnedWidth(Append(p, k))], 1, n)

\* C7 as amended: the returned width is node_width for a leaf and the
\* reserved width num_children * x_spacing for an internal node, and each
\* child is placed the returned width of its left sibling to the right of it.
C7_ReturnsReservedWidth ==
    pc = "displayed" =>
        \A p \in Nodes :
            LET node == Sub(data, p)
                n == Len(node.children)
            IN  /\ ReturnedWidth(p) =
                     IF IsLeaf(node) THEN node_width ELSE n * x_spacing
                /\ \A k \in 1..(n - 1) :
                     Pos(Append(p, k + 1))[1] =
                         Pos(Append(p, k))[1] + ReturnedWidth(Append(p, k))

\* a rendered root whose first child is internal and has a right sibling
C7_Witness ==
    /\ pc = "displayed"
    /\ Len(data.children) >= 2
    /\ ~IsLeaf(data.children[1])
    /\ ReturnedWidth(<<1>>) = Len(data.children[1].children) * x_spacing
    /\ Pos(<<2>>)[1] = Pos(<<1>>)[1] + ReturnedWidth(<<1>>)

-----------------------------------------------------------------------------
(* C8 *)

\* a comes before b in the pre-order traversal of the tree
RECURSIVE Before(_, _)
Before(a, b) ==
    IF a = <<>> THEN b # <<>>
    ELSE IF b = <<>> THEN FALSE
    ELSE IF Head(a) # Head(b) THEN Head(a) < Head(b)
    ELSE Before(Tail(a), Tail(b))

ImageNodes == {p \in Nodes : Sub(data, p).image # ""}
Unloadable == {p \in ImageNodes : Sub(data, p).image \notin Loadable}
FirstUnloadable == CHOOSE p \in Unloadable : \A q \in Unloadable \ {p} : Before(p, q)

\* C8: if the image of any node cannot be loaded, the pipeline ends failed
\* with the load error, preload having stopped at the first failure (the
\* cache holds the images of the nodes before it and no more), and nothing
\* has been drawn for any node.  Otherwise every image named in the tree is
\* in the cache, the pipeline never fails, and the draw pass runs to its end.
C8_AssetFailureAtomic ==
    pc # "init" =>
        /\ Unloadable # {} =>
              /\ pc = "failed"
              /\ error = "Failed to load image"
              /\ NodeItemIdx = {}
              /\ preloaded_images =
                    {Sub(data, q).image :
                        q \in {q \in ImageNodes : Before(q, FirstUnloadable)}}
        /\ Unloadable = {} =>
              /\ pc \in {"constructed", "displayed"}
              /\ error = ""
              /\ preloaded_images = {Sub(data, q).image : q \in ImageNodes}
              /\ draw_tree(data, <<>>, canvas_width \div 2, root_y).ok

\* preload loaded one image and then failed on a later node
C8_Witness ==
    /\ pc = "failed"
    /\ error = "Failed to load image"
    /\ preloaded_images = {"ok.png"}
    /\ items = <<WindowItem>>

-----------------------------------------------------------------------------
(* C9 *)

\* the scroll region display_tree configures for the tree
RenderExtent ==
    LET root_width == draw_tree(data, <<>>, canvas_width \div 2, root_y).width
    IN  <<(-root_width) \div 2, -30, root_width \div 2, canvas_height>>

\* region is the smallest box that holds every item in its
SmallestBoxAround(region, its) ==
    /\ region # <<>>
    /\ \A i \in DOMAIN its :
         /\ region[1] <= ItemBox(its[i])[1]
         /\ region[2] <= ItemBox(its[i])[2]
         /\ ItemBox(its[i])[3] <= region[3]
         /\ ItemBox(its[i])[4] <= region[4]
    /\ \A s \in 1..4 : \E i \in DOMAIN its : ItemBox(its[i])[s] = region[s]

\* what a Configure event must leave alone
LayoutState == <<pc, data, tree_size, x_spacing, y_spacing, preloaded_images,
                 items, error>>

\* C9 as claimed: a Configure event after a render leaves the footprint, the
\* spacing, the coordinates and the drawn items unchanged and sets the scroll
\* region to the bounds display_tree configured.
C9_ConfigureKeepsRenderExtent ==
    [][(on_canvas_configure /\ pc = "displayed") =>
          (UNCHANGED LayoutState /\ scrollregion' = RenderExtent)]_vars

\* C9 as amended: a Configure event after a render leaves the footprint, the
\* spacing, the coordinates and the drawn items unchanged and sets the scroll
\* region to the bounding box of the items on the canvas.
C9_ConfigureSetsBoundingBox ==
    [][(on_canvas_configure /\ pc = "displayed") =>
          (UNCHANGED LayoutState /\ SmallestBoxAround(scrollregion', items))]_vars

\* a Configure event has been handled after a render of a tree with children
C9_Witness ==
    /\ pc = "displayed"
    /\ ~IsLeaf(data)
    /\ SmallestBoxAround(scrollregion, items)
    /\ scrollregion # RenderExtent

-----------------------------------------------------------------------------
(* C10 *)

\* C10: the children of every node are drawn in insertion order from left to
\* right: of two children of one node, the earlier in the children sequence
\* is emitted first and gets the strictly smaller x-coordinate.
C10_ChildrenLeftToRight ==
    pc = "displayed" =>
        \A i, j \in ShapeIdx :
            LET a == items[i].node
                b == items[j].node
            IN  (/\ a # <<>>
                 /\ Len(a) = Len(b)
                 /\ Parent(a) = Parent(b)
                 /\ a[Len(a)] < b[Len(b)])
                => (i < j /\ Centre(items[i])[1] < Centre(items[j])[1])

====
